---- MODULE Spec2Model ----
(***************************************************************************)
(* HW3/Problem2.ipynb: a classifier head trained on a frozen BERT encoder  *)
(* for IMDB sentiment classification.  The notebook's cells are run in     *)
(* order; every statement that changes state is one action.                *)
(*                                                                         *)
(* Tensors are scaled down to small integers: a review is one integer      *)
(* token, a parameter tensor is one integer weight, the cross-entropy loss *)
(* is an integer margin penalty, and a gradient is the set of batches      *)
(* whose backward pass contributed to it.  Ratios (accuracies, average     *)
(* losses) are kept as <<numerator, denominator>>.                         *)
(***************************************************************************)
EXTENDS Integers, Sequences, FiniteSets, TLC

(***************************************************************************)
(* Bounds of the model and constants of the program                        *)
(***************************************************************************)
\* sizes of the scaled-down splits used by the training run (Spec)
NumTrain == 10
NumVal == 9
NumTest == 8
\* the shuffles RandomSampler may draw: rotations by 0..MaxShift, both directions
MaxShift == 1
\* integer parameter values are kept within -MaxWeight..MaxWeight
MaxWeight == 1

batch_size == 8
\* a loop of one epoch more
EPOCHS_three == 2 + 1
EPOCHS == 2
num_classes == 2

Min(a, b) == IF a < b THEN a ELSE b
Max(a, b) == IF a > b THEN a ELSE b

RECURSIVE SumSeq(_)
SumSeq(s) == IF s = <<>> THEN 0 ELSE Head(s) + SumSeq(Tail(s))

(***************************************************************************)
(* The state                                                               *)
(***************************************************************************)
VARIABLES
    pc,                   \* the statement the notebook executes next
    epoch,                \* number of iterations of the epoch loop begun
    training,             \* model.training (set by model.train() / model.eval())
    grad_enabled,         \* FALSE inside "with torch.no_grad()"
    params,               \* value of each parameter tensor of the model
    requires_grad,        \* param.requires_grad of each parameter
    opt_params,           \* the parameters handed to optim.Adam
    grads,                \* param.grad of each parameter
    steps,                \* number of optimizer.step() calls made
    order,                \* index order the current pass's sampler yields
    pos,                  \* examples of the current pass already delivered
    delivered,            \* the reviews the current pass has delivered, in order
    batch,                \* the batch the loop body is working on
    logits,               \* logits of the last forward pass
    fwd,                  \* what the last forward pass was computed from
    loss,                 \* loss of the current batch
    total_train_loss, total_train_correct, total_examples,
    total_val_loss, total_val_correct, total_val_examples,
    total_test_correct, total_test_examples,
    train_acc, avg_train_loss, val_acc, avg_val_loss, test_acc,
    predictions,          \* predictions for example_texts
    output,               \* the lines printed by the epoch loop
    \* the three loaders at the size of the real splits
    ld_loader,            \* the loader being iterated
    ld_epoch,             \* the epoch of the pass
    ld_pos,               \* examples of the pass already delivered
    ld_len,               \* size of the batch yielded last (0: none yet)
    \* the train/validation split
    sp_pc, train_texts, train_labels, val_texts, val_labels,
    \* the tokenizer
    tok_site,             \* the call that tokenized: "splits" or "adhoc"
    tok_text,             \* the text given to the tokenizer
    tok_out,              \* the encoding it returned
    \* two executions of the notebook, side by side
    rp_pc, rp_epoch,
    rng,                  \* state of torch's default generator in each execution
    seeded,               \* whether the execution has called torch.manual_seed
    draws                 \* the random draws each execution has made

runVars == <<pc, epoch, training, grad_enabled, params, requires_grad, opt_params,
             grads, steps, order, pos, delivered, batch, logits, fwd, loss,
             total_train_loss, total_train_correct, total_examples,
             total_val_loss, total_val_correct, total_val_examples,
             total_test_correct, total_test_examples,
             train_acc, avg_train_loss, val_acc, avg_val_loss, test_acc,
             predictions, output>>

ldVars == <<ld_loader, ld_epoch, ld_pos, ld_len>>
splitVars == <<sp_pc, train_texts, train_labels, val_texts, val_labels>>
tokVars == <<tok_site, tok_text, tok_out>>
reproVars == <<rp_pc, rp_epoch, rng, seeded, draws>>

\* the state the training run does not touch
otherVars == <<ldVars, splitVars, tokVars, reproVars>>

vars == <<runVars, ldVars, splitVars, tokVars, reproVars>>

(***************************************************************************)
(* The model: CustomBERTModel                                              *)
(***************************************************************************)
BertParams == {"bert.encoder", "bert.pooler"}
ClassifierParams == {"classifier.weight", "classifier.bias"}
ParamNames == BertParams \cup ClassifierParams

\* BertModel.from_pretrained gives the encoder weights, nn.Linear's default
\* initialisation the classifier weights
Pretrained == [p \in ParamNames |-> IF p \in BertParams THEN 1 ELSE 0]

\* the model had the freezing loop been left out
CustomBERTModel_unfrozen == [p \in ParamNames |-> TRUE]

\* "for param in self.bert.parameters(): param.requires_grad = False"
CustomBERTModel_init == [p \in ParamNames |-> p \notin BertParams]

\* "[p for p in model.parameters() if p.requires_grad]"
trainable_params(rg) == {p \in ParamNames : rg[p]}

NoGrad == [is_none |-> TRUE, from |-> {}]

\* model.training had model.eval() not been called
model_eval_skipped == training

\* model.training after model.train() and after model.eval()
model_train == TRUE
model_eval == FALSE

\* torch.is_grad_enabled() inside and after "with torch.no_grad():"
no_grad_enter == FALSE
no_grad_exit == TRUE

\* the gradients had optimizer.zero_grad() not been called
zero_grad_skipped(g, op) == g

\* optimizer.zero_grad(): the .grad of the optimizer's parameters is cleared
zero_grad(g, op) == [p \in DOMAIN g |-> IF p \in op THEN NoGrad ELSE g[p]]

\* dropout inside BERT is active in training mode only: it zeroes the feature
\* of the first example of the batch when the mask says so
Dropped(k, drop) == drop /\ k = 1

\* what the pretrained encoder reads off a review: one of three features
Feature(input_ids) == input_ids % 3

\* outputs.pooler_output for one example
bert(w, item, k, drop) ==
    IF Dropped(k, drop) THEN 0
    ELSE w["bert.pooler"] * w["bert.encoder"] * Feature(item.input_ids)
            * item.attention_mask

\* self.classifier(pooled_output): one logit per class
classifier(w, pooled) ==
    [c \in 0..(num_classes - 1) |->
        IF c = 0 THEN w["classifier.bias"] ELSE w["classifier.weight"] * pooled]

\* CustomBERTModel.forward over a batch
forward(w, b, drop) ==
    [k \in 1..Len(b) |-> classifier(w, bert(w, b[k], k, drop))]

\* torch.argmax(logits, dim=1) for one row: the first index holding the maximum
argmax(row) ==
    CHOOSE c \in DOMAIN row :
        /\ \A d \in DOMAIN row : row[d] <= row[c]
        /\ \A d \in DOMAIN row : row[d] = row[c] => c <= d

\* every batch counted as a full one
labels_size_full(b) == batch_size

\* labels.size(0)
labels_size(b) == Len(b)

\* (preds == labels).sum().item()
Correct(lg, b) == Cardinality({k \in 1..Len(b) : argmax(lg[k]) = b[k].labels})

\* nn.CrossEntropyLoss: zero for an example whose label holds the largest logit,
\* growing with the margin by which it does not
criterion(lg, b) ==
    SumSeq([k \in 1..Len(b) |-> lg[k][argmax(lg[k])] - lg[k][b[k].labels]])

(***************************************************************************)
(* Datasets and loaders                                                    *)
(***************************************************************************)
\* an IMDbDataset: the tokenized texts and the labels of one split; review i is
\* tokenized to the id i
Dataset(n) ==
    [encodings |-> [i \in 1..n |-> [input_ids |-> i, attention_mask |-> 1]],
     labels |-> [i \in 1..n |-> i % 2]]

train_dataset == Dataset(NumTrain)
val_dataset == Dataset(NumVal)
test_dataset == Dataset(NumTest)

\* IMDbDataset.__len__
DatasetLen(ds) == Len(ds.labels)

\* __getitem__ pairing an encoding with the label of the next index
getitem_next_label(ds, idx) ==
    [input_ids |-> ds.encodings[idx].input_ids,
     attention_mask |-> ds.encodings[idx].attention_mask,
     labels |-> ds.labels[(idx % Len(ds.labels)) + 1]]

\* IMDbDataset.__getitem__
getitem(ds, idx) ==
    [input_ids |-> ds.encodings[idx].input_ids,
     attention_mask |-> ds.encodings[idx].attention_mask,
     labels |-> ds.labels[idx]]

\* SequentialSampler (shuffle=False): the indices in dataset order
SequentialOrder(n) == [i \in 1..n |-> i]

\* RandomSampler (shuffle=True): a permutation of the indices, drawn anew by
\* every iteration over the loader
ShuffleOrders(n) ==
    {[i \in 1..n |-> ((a * (i - 1) + s) % n) + 1] : a \in {1, n - 1}, s \in 0..MaxShift}

\* a loader that always yields batch_size examples
BatchLen_full(n, p) == batch_size

\* number of examples in the batch DataLoader yields after pos examples were
\* delivered (drop_last is left at its default, False)
BatchLen(n, p) == Min(batch_size, n - p)

\* the batch DataLoader yields after pos examples were delivered
NextBatch(ds, ord, p) ==
    [k \in 1..BatchLen(DatasetLen(ds), p) |-> getitem(ds, ord[p + k])]

\* len(loader)
LoaderLen(n) == (n + batch_size - 1) \div batch_size

(***************************************************************************)
(* The training run                                                        *)
(***************************************************************************)
Clip(x) == Max(-MaxWeight, Min(MaxWeight, x))

\* the batch tag recorded in a gradient: <<epoch, batch number in the pass>>
BatchTag == <<epoch, LoaderLen(pos)>>

RunInit ==
    /\ pc = "epoch_loop"
    /\ epoch = 0
    /\ training = TRUE
    /\ grad_enabled = TRUE
    /\ params = Pretrained
    /\ requires_grad = CustomBERTModel_init
    /\ opt_params = trainable_params(CustomBERTModel_init)
    /\ grads = [p \in ParamNames |-> NoGrad]
    /\ steps = 0
    /\ order = <<>>
    /\ pos = 0
    /\ delivered = <<>>
    /\ batch = <<>>
    /\ logits = <<>>
    /\ fwd = [params |-> Pretrained, drop |-> FALSE, steps |-> 0, training |-> TRUE,
              grad_enabled |-> TRUE]
    /\ loss = 0
    /\ total_train_loss = 0 /\ total_train_correct = 0 /\ total_examples = 0
    /\ total_val_loss = 0 /\ total_val_correct = 0 /\ total_val_examples = 0
    /\ total_test_correct = 0 /\ total_test_examples = 0
    /\ train_acc = <<0, 0>> /\ avg_train_loss = <<0, 0>>
    /\ val_acc = <<0, 0>> /\ avg_val_loss = <<0, 0>>
    /\ test_acc = <<0, 0>>
    /\ predictions = <<>>
    /\ output = <<>>

\* lines 368-374: the next epoch begins
EpochStart ==
    /\ pc = "epoch_loop" /\ epoch < EPOCHS
    /\ epoch' = epoch + 1
    /\ training' = model_train
    /\ total_train_loss' = 0 /\ total_train_correct' = 0 /\ total_examples' = 0
    /\ \E o \in ShuffleOrders(DatasetLen(train_dataset)) : order' = o
    /\ pos' = 0
    /\ delivered' = <<>>
    /\ pc' = "train_fetch"
    /\ UNCHANGED otherVars
    /\ UNCHANGED <<grad_enabled, params, requires_grad, opt_params, grads, steps, batch,
                   logits, fwd, loss, total_val_loss, total_val_correct,
                   total_val_examples, total_test_correct, total_test_examples,
                   train_acc, avg_train_loss, val_acc, avg_val_loss, test_acc,
                   predictions, output>>

\* lines 374-377: the train loader yields the next batch
TrainFetch ==
    /\ pc = "train_fetch" /\ pos < DatasetLen(train_dataset)
    /\ batch' = NextBatch(train_dataset, order, pos)
    /\ delivered' = delivered \o [k \in 1..Len(batch') |-> batch'[k].input_ids]
    /\ pos' = pos + BatchLen(DatasetLen(train_dataset), pos)
    /\ pc' = "zero_grad"
    /\ UNCHANGED otherVars
    /\ UNCHANGED <<epoch, training, grad_enabled, params, requires_grad, opt_params,
                   grads, steps, order, logits, fwd, loss,
                   total_train_loss, total_train_correct, total_examples,
                   total_val_loss, total_val_correct, total_val_examples,
                   total_test_correct, total_test_examples,
                   train_acc, avg_train_loss, val_acc, avg_val_loss, test_acc,
                   predictions, output>>

\* line 379: optimizer.zero_grad()
ZeroGrad ==
    /\ pc = "zero_grad"
    /\ grads' = zero_grad(grads, opt_params)
    /\ pc' = "forward"
    /\ UNCHANGED <<otherVars, delivered>>
    /\ UNCHANGED <<epoch, training, grad_enabled, params, requires_grad, opt_params,
                   steps, order, pos, batch, logits, fwd, loss,
                   total_train_loss, total_train_correct, total_examples,
                   total_val_loss, total_val_correct, total_val_examples,
                   total_test_correct, total_test_examples,
                   train_acc, avg_train_loss, val_acc, avg_val_loss, test_acc,
                   predictions, output>>

\* the forward pass of the model over the current batch b
ModelCall(b) ==
    \E drop \in (IF training THEN BOOLEAN ELSE {FALSE}) :
        /\ logits' = forward(params, b, drop)
        /\ fwd' = [params |-> params, drop |-> drop, steps |-> steps,
                   training |-> training, grad_enabled |-> grad_enabled]

\* line 382: logits = model(input_ids, attention_mask)
Forward ==
    /\ pc = "forward"
    /\ ModelCall(batch)
    /\ pc' = "loss"
    /\ UNCHANGED <<otherVars, delivered>>
    /\ UNCHANGED <<epoch, training, grad_enabled, params, requires_grad, opt_params,
                   grads, steps, order, pos, batch, loss,
                   total_train_loss, total_train_correct, total_examples,
                   total_val_loss, total_val_correct, total_val_examples,
                   total_test_correct, total_test_examples,
                   train_acc, avg_train_loss, val_acc, avg_val_loss, test_acc,
                   predictions, output>>

\* line 385: loss = criterion(logits, labels)
Loss ==
    /\ pc = "loss"
    /\ loss' = criterion(logits, batch)
    /\ pc' = "backward"
    /\ UNCHANGED <<otherVars, delivered>>
    /\ UNCHANGED <<epoch, training, grad_enabled, params, requires_grad, opt_params,
                   grads, steps, order, pos, batch, logits, fwd,
                   total_train_loss, total_train_correct, total_examples,
                   total_val_loss, total_val_correct, total_val_examples,
                   total_test_correct, total_test_examples,
                   train_acc, avg_train_loss, val_acc, avg_val_loss, test_acc,
                   predictions, output>>

\* loss.backward(): the gradient of this batch is added to the .grad of every
\* parameter that requires grad
backward(g, rg, tag) ==
    [p \in ParamNames |->
        IF rg[p] THEN [is_none |-> FALSE, from |-> g[p].from \cup {tag}] ELSE g[p]]

\* line 388: loss.backward()
Backward ==
    /\ pc = "backward"
    /\ fwd.grad_enabled
    /\ grads' = backward(grads, requires_grad, BatchTag)
    /\ pc' = "step"
    /\ UNCHANGED <<otherVars, delivered>>
    /\ UNCHANGED <<epoch, training, grad_enabled, params, requires_grad, opt_params,
                   steps, order, pos, batch, logits, fwd, loss,
                   total_train_loss, total_train_correct, total_examples,
                   total_val_loss, total_val_correct, total_val_examples,
                   total_test_correct, total_test_examples,
                   train_acc, avg_train_loss, val_acc, avg_val_loss, test_acc,
                   predictions, output>>

\* the parameters optimizer.step() may write: those it was given that have a grad
Stepped(op, g) == {p \in op : ~g[p].is_none}

\* line 389: optimizer.step()
OptimizerStep ==
    /\ pc = "step"
    /\ \E delta \in [Stepped(opt_params, grads) -> {-1, 0, 1}] :
          params' = [p \in ParamNames |->
                        IF p \in Stepped(opt_params, grads)
                        THEN Clip(params[p] + delta[p]) ELSE params[p]]
    /\ steps' = steps + 1
    /\ pc' = "train_metrics"
    /\ UNCHANGED <<otherVars, delivered>>
    /\ UNCHANGED <<epoch, training, grad_enabled, requires_grad, opt_params,
                   grads, order, pos, batch, logits, fwd, loss,
                   total_train_loss, total_train_correct, total_examples,
                   total_val_loss, total_val_correct, total_val_examples,
                   total_test_correct, total_test_examples,
                   train_acc, avg_train_loss, val_acc, avg_val_loss, test_acc,
                   predictions, output>>

\* lines 391-397: the batch's loss and accuracy are added to the epoch's totals
TrainMetrics ==
    /\ pc = "train_metrics"
    /\ total_train_loss' = total_train_loss + loss
    /\ total_train_correct' = total_train_correct + Correct(logits, batch)
    /\ total_examples' = total_examples + labels_size(batch)
    /\ pc' = "train_fetch"
    /\ UNCHANGED <<otherVars, delivered>>
    /\ UNCHANGED <<epoch, training, grad_enabled, params, requires_grad, opt_params,
                   grads, steps, order, pos, batch, logits, fwd, loss,
                   total_val_loss, total_val_correct, total_val_examples,
                   total_test_correct, total_test_examples,
                   train_acc, avg_train_loss, val_acc, avg_val_loss, test_acc,
                   predictions, output>>

\* lines 399-410: the train loader is exhausted; validation begins
ValStart ==
    /\ pc = "train_fetch" /\ pos = DatasetLen(train_dataset)
    /\ avg_train_loss' = <<total_train_loss, LoaderLen(DatasetLen(train_dataset))>>
    /\ train_acc' = <<total_train_correct, total_examples>>
    /\ training' = model_eval
    /\ total_val_loss' = 0 /\ total_val_correct' = 0 /\ total_val_examples' = 0
    /\ grad_enabled' = no_grad_enter
    /\ order' = SequentialOrder(DatasetLen(val_dataset))
    /\ pos' = 0
    /\ delivered' = <<>>
    /\ pc' = "val_fetch"
    /\ UNCHANGED otherVars
    /\ UNCHANGED <<epoch, params, requires_grad, opt_params, grads, steps, batch,
                   logits, fwd, loss,
                   total_train_loss, total_train_correct, total_examples,
                   total_test_correct, total_test_examples,
                   val_acc, avg_val_loss, test_acc, predictions, output>>

\* lines 411-414: the validation loader yields the next batch
ValFetch ==
    /\ pc = "val_fetch" /\ pos < DatasetLen(val_dataset)
    /\ batch' = NextBatch(val_dataset, order, pos)
    /\ delivered' = delivered \o [k \in 1..Len(batch') |-> batch'[k].input_ids]
    /\ pos' = pos + BatchLen(DatasetLen(val_dataset), pos)
    /\ pc' = "val_forward"
    /\ UNCHANGED otherVars
    /\ UNCHANGED <<epoch, training, grad_enabled, params, requires_grad, opt_params,
                   grads, steps, order, logits, fwd, loss,
                   total_train_loss, total_train_correct, total_examples,
                   total_val_loss, total_val_correct, total_val_examples,
                   total_test_correct, total_test_examples,
                   train_acc, avg_train_loss, val_acc, avg_val_loss, test_acc,
                   predictions, output>>

\* lines 416-417: forward pass and loss of a validation batch
ValForward ==
    /\ pc = "val_forward"
    /\ ModelCall(batch)
    /\ loss' = criterion(logits', batch)
    /\ pc' = "val_metrics"
    /\ UNCHANGED <<otherVars, delivered>>
    /\ UNCHANGED <<epoch, training, grad_enabled, params, requires_grad, opt_params,
                   grads, steps, order, pos, batch,
                   total_train_loss, total_train_correct, total_examples,
                   total_val_loss, total_val_correct, total_val_examples,
                   total_test_correct, total_test_examples,
                   train_acc, avg_train_loss, val_acc, avg_val_loss, test_acc,
                   predictions, output>>

\* lines 419-424
ValMetrics ==
    /\ pc = "val_metrics"
    /\ total_val_loss' = total_val_loss + loss
    /\ total_val_correct' = total_val_correct + Correct(logits, batch)
    /\ total_val_examples' = total_val_examples + labels_size(batch)
    /\ pc' = "val_fetch"
    /\ UNCHANGED <<otherVars, delivered>>
    /\ UNCHANGED <<epoch, training, grad_enabled, params, requires_grad, opt_params,
                   grads, steps, order, pos, batch, logits, fwd, loss,
                   total_train_loss, total_train_correct, total_examples,
                   total_test_correct, total_test_examples,
                   train_acc, avg_train_loss, val_acc, avg_val_loss, test_acc,
                   predictions, output>>

\* lines 426-432: the validation loader is exhausted; the epoch is reported
Report ==
    /\ pc = "val_fetch" /\ pos = DatasetLen(val_dataset)
    /\ grad_enabled' = no_grad_exit
    /\ avg_val_loss' = <<total_val_loss, LoaderLen(DatasetLen(val_dataset))>>
    /\ val_acc' = <<total_val_correct, total_val_examples>>
    /\ output' = Append(output, [epoch |-> epoch,
                                 train_loss |-> avg_train_loss, train_acc |-> train_acc,
                                 val_loss |-> avg_val_loss', val_acc |-> val_acc'])
    /\ pc' = "epoch_loop"
    /\ UNCHANGED <<otherVars, delivered>>
    /\ UNCHANGED <<epoch, training, params, requires_grad, opt_params, grads, steps,
                   order, pos, batch, logits, fwd, loss,
                   total_train_loss, total_train_correct, total_examples,
                   total_val_loss, total_val_correct, total_val_examples,
                   total_test_correct, total_test_examples,
                   train_acc, avg_train_loss, test_acc, predictions>>

\* lines 450-455: the epoch loop has ended; the test cell begins
TestStart ==
    /\ pc = "epoch_loop" /\ epoch = EPOCHS
    /\ training' = model_eval
    /\ total_test_correct' = 0 /\ total_test_examples' = 0
    /\ grad_enabled' = no_grad_enter
    /\ order' = SequentialOrder(DatasetLen(test_dataset))
    /\ pos' = 0
    /\ delivered' = <<>>
    /\ pc' = "test_fetch"
    /\ UNCHANGED otherVars
    /\ UNCHANGED <<epoch, params, requires_grad, opt_params, grads, steps, batch,
                   logits, fwd, loss,
                   total_train_loss, total_train_correct, total_examples,
                   total_val_loss, total_val_correct, total_val_examples,
                   train_acc, avg_train_loss, val_acc, avg_val_loss, test_acc,
                   predictions, output>>

\* lines 455-458: the test loader yields the next batch
TestFetch ==
    /\ pc = "test_fetch" /\ pos < DatasetLen(test_dataset)
    /\ batch' = NextBatch(test_dataset, order, pos)
    /\ delivered' = delivered \o [k \in 1..Len(batch') |-> batch'[k].input_ids]
    /\ pos' = pos + BatchLen(DatasetLen(test_dataset), pos)
    /\ pc' = "test_forward"
    /\ UNCHANGED otherVars
    /\ UNCHANGED <<epoch, training, grad_enabled, params, requires_grad, opt_params,
                   grads, steps, order, logits, fwd, loss,
                   total_train_loss, total_train_correct, total_examples,
                   total_val_loss, total_val_correct, total_val_examples,
                   total_test_correct, total_test_examples,
                   train_acc, avg_train_loss, val_acc, avg_val_loss, test_acc,
                   predictions, output>>

\* line 460: forward pass of a test batch
TestForward ==
    /\ pc = "test_forward"
    /\ ModelCall(batch)
    /\ pc' = "test_metrics"
    /\ UNCHANGED <<otherVars, delivered>>
    /\ UNCHANGED <<epoch, training, grad_enabled, params, requires_grad, opt_params,
                   grads, steps, order, pos, batch, loss,
                   total_train_loss, total_train_correct, total_examples,
                   total_val_loss, total_val_correct, total_val_examples,
                   total_test_correct, total_test_examples,
                   train_acc, avg_train_loss, val_acc, avg_val_loss, test_acc,
                   predictions, output>>

\* lines 461-465
TestMetrics ==
    /\ pc = "test_metrics"
    /\ total_test_correct' = total_test_correct + Correct(logits, batch)
    /\ total_test_examples' = total_test_examples + labels_size(batch)
    /\ pc' = "test_fetch"
    /\ UNCHANGED <<otherVars, delivered>>
    /\ UNCHANGED <<epoch, training, grad_enabled, params, requires_grad, opt_params,
                   grads, steps, order, pos, batch, logits, fwd, loss,
                   total_train_loss, total_train_correct, total_examples,
                   total_val_loss, total_val_correct, total_val_examples,
                   train_acc, avg_train_loss, val_acc, avg_val_loss, test_acc,
                   predictions, output>>

\* lines 467-468: the test loader is exhausted; the test accuracy is printed
TestEnd ==
    /\ pc = "test_fetch" /\ pos = DatasetLen(test_dataset)
    /\ grad_enabled' = no_grad_exit
    /\ test_acc' = <<total_test_correct, total_test_examples>>
    /\ pc' = "infer_start"
    /\ UNCHANGED <<otherVars, delivered>>
    /\ UNCHANGED <<epoch, training, params, requires_grad, opt_params, grads, steps,
                   order, pos, batch, logits, fwd, loss,
                   total_train_loss, total_train_correct, total_examples,
                   total_val_loss, total_val_correct, total_val_examples,
                   total_test_correct, total_test_examples,
                   train_acc, avg_train_loss, val_acc, avg_val_loss,
                   predictions, output>>

\* the two tokenized example_texts (they carry no label)
example_tokens ==
    <<[input_ids |-> 2, attention_mask |-> 1],
      [input_ids |-> 0, attention_mask |-> 1]>>

\* lines 497-506: model.eval(), the example texts are tokenized, no_grad is entered
InferStart ==
    /\ pc = "infer_start"
    /\ training' = model_eval
    /\ batch' = example_tokens
    /\ grad_enabled' = no_grad_enter
    /\ pc' = "infer"
    /\ UNCHANGED <<otherVars, delivered>>
    /\ UNCHANGED <<epoch, params, requires_grad, opt_params, grads, steps,
                   order, pos, logits, fwd, loss,
                   total_train_loss, total_train_correct, total_examples,
                   total_val_loss, total_val_correct, total_val_examples,
                   total_test_correct, total_test_examples,
                   train_acc, avg_train_loss, val_acc, avg_val_loss, test_acc,
                   predictions, output>>

\* lines 507-508: forward pass and predictions of the example texts
Infer ==
    /\ pc = "infer"
    /\ ModelCall(batch)
    /\ predictions' = [k \in 1..Len(batch) |-> argmax(logits'[k])]
    /\ grad_enabled' = no_grad_exit
    /\ pc' = "done"
    /\ UNCHANGED <<otherVars, delivered>>
    /\ UNCHANGED <<epoch, training, params, requires_grad, opt_params, grads, steps,
                   order, pos, batch, loss,
                   total_train_loss, total_train_correct, total_examples,
                   total_val_loss, total_val_correct, total_val_examples,
                   total_test_correct, total_test_examples,
                   train_acc, avg_train_loss, val_acc, avg_val_loss, test_acc,
                   output>>

Next ==
    \/ EpochStart \/ TrainFetch \/ ZeroGrad \/ Forward \/ Loss \/ Backward
    \/ OptimizerStep \/ TrainMetrics \/ ValStart \/ ValFetch \/ ValForward
    \/ ValMetrics \/ Report \/ TestStart \/ TestFetch \/ TestForward \/ TestMetrics
    \/ TestEnd \/ InferStart \/ Infer

(***************************************************************************)
(* The loaders at the size of the real splits                              *)
(***************************************************************************)
\* num_rows of imdb['train'] and of imdb['test']
ImdbTrainRows == 25000
ImdbTestRows == 25000

\* test_size=0.1
TestSizeNum == 1
TestSizeDen == 10

\* number of validation examples train_test_split takes out of n: ceil(test_size * n)
ValRows(n) == (TestSizeNum * n + TestSizeDen - 1) \div TestSizeDen

\* number of training examples it leaves
TrainRows(n) == n - ValRows(n)

\* len(loader.dataset) of the three loaders
LoaderRows(l) ==
    CASE l = "train" -> TrainRows(ImdbTrainRows)
      [] l = "val" -> ValRows(ImdbTrainRows)
      [] OTHER -> ImdbTestRows

LdInit ==
    /\ ld_loader = "train" /\ ld_epoch = 1 /\ ld_pos = 0 /\ ld_len = 0

LdParked ==
    /\ ld_loader = "idle" /\ ld_epoch = 0 /\ ld_pos = 0 /\ ld_len = 0

\* "for batch in ..._loader": the loader yields its next batch
LdYield ==
    /\ ld_loader \in {"train", "val", "test"}
    /\ ld_pos < LoaderRows(ld_loader)
    /\ ld_len' = BatchLen(LoaderRows(ld_loader), ld_pos)
    /\ ld_pos' = ld_pos + BatchLen(LoaderRows(ld_loader), ld_pos)
    /\ UNCHANGED <<ld_loader, ld_epoch>>
    /\ UNCHANGED <<runVars, splitVars, tokVars, reproVars>>

\* the loader is exhausted: the run goes on to its next pass
LdNextPass ==
    /\ ld_loader \in {"train", "val", "test"}
    /\ ld_pos = LoaderRows(ld_loader)
    /\ ld_loader' = CASE ld_loader = "train" -> "val"
                      [] ld_loader = "val" /\ ld_epoch < EPOCHS -> "train"
                      [] ld_loader = "val" /\ ld_epoch = EPOCHS -> "test"
                      [] OTHER -> "done"
    /\ ld_epoch' = IF ld_loader = "val" /\ ld_epoch < EPOCHS THEN ld_epoch + 1 ELSE ld_epoch
    /\ ld_pos' = 0
    /\ ld_len' = 0
    /\ UNCHANGED <<runVars, splitVars, tokVars, reproVars>>

(***************************************************************************)
(* The train/validation split                                              *)
(***************************************************************************)
\* the labelled set is IMDB's, scaled down: two classes of equal size, the
\* negative reviews first; SplitScale = 1250 gives the real 25000 rows
SplitScale == 1

SplitRows == 2 * TestSizeDen * SplitScale

imdb_train ==
    [text |-> [i \in 1..SplitRows |-> <<"train", i>>],
     label |-> [i \in 1..SplitRows |-> IF 2 * i <= SplitRows THEN 0 ELSE 1]]

imdb_test ==
    [text |-> [i \in 1..SplitRows |-> <<"test", i>>],
     label |-> [i \in 1..SplitRows |-> IF 2 * i <= SplitRows THEN 0 ELSE 1]]

\* a split that is not stratified: every example in one class
stratify_none == [i \in DOMAIN imdb_train.label |-> 0]

\* "stratify= train_labels": the class of each example the split balances
stratify == imdb_train.label

RECURSIVE KSubsets(_, _)
KSubsets(S, k) ==
    IF k = 0 THEN {{}}
    ELSE IF Cardinality(S) < k THEN {}
    ELSE LET x == CHOOSE y \in S : TRUE
         IN  KSubsets(S \ {x}, k) \cup {T \cup {x} : T \in KSubsets(S \ {x}, k - 1)}

RECURSIVE SumOver(_, _)
SumOver(f, S) ==
    IF S = {} THEN 0
    ELSE LET x == CHOOSE y \in S : TRUE IN f[x] + SumOver(f, S \ {x})

\* the members of S in ascending order, S a set of indices up to n
SortedSeq(S, n) == SelectSeq([i \in 1..n |-> i], LAMBDA i : i \in S)

Reverse(s) == [k \in 1..Len(s) |-> s[Len(s) + 1 - k]]

\* the members of each class
ClassMembers(strat, c) == {i \in DOMAIN strat : strat[i] = c}

\* the number of training examples a stratified split may take from each class:
\* the class's share of n_train, rounded down or up, n_train in all
TrainAllocations(strat, n_train) ==
    LET classes == {strat[i] : i \in DOMAIN strat}
        n == Len(strat)
        share(c) == Cardinality(ClassMembers(strat, c)) * n_train
    IN  {a \in [classes -> 0..n_train] :
            /\ SumOver(a, classes) = n_train
            /\ \A c \in classes :
                  /\ a[c] * n > share(c) - n
                  /\ a[c] * n < share(c) + n}

\* the sets made of a[c] members of every class c of cs
RECURSIVE PickSets(_, _, _)
PickSets(strat, a, cs) ==
    IF cs = {} THEN {{}}
    ELSE LET c == CHOOSE d \in cs : TRUE
         IN  {p \cup q : p \in KSubsets(ClassMembers(strat, c), a[c]),
                         q \in PickSets(strat, a, cs \ {c})}

\* the index sets a stratified split may return as the training part
TrainIndexSets(strat, n_train) ==
    UNION {PickSets(strat, a, {strat[i] : i \in DOMAIN strat})
              : a \in TrainAllocations(strat, n_train)}

SplitInit ==
    /\ sp_pc = "loaded"
    /\ train_texts = imdb_train.text /\ train_labels = imdb_train.label
    /\ val_texts = <<>> /\ val_labels = <<>>

SplitParked ==
    /\ sp_pc = "idle"
    /\ train_texts = <<>> /\ train_labels = <<>>
    /\ val_texts = <<>> /\ val_labels = <<>>

\* lines 87-93: train_test_split(train_texts, train_labels, test_size=0.1,
\* random_state=42, stratify=train_labels)
TrainTestSplit ==
    /\ sp_pc = "loaded"
    /\ \E tr \in TrainIndexSets(stratify, TrainRows(Len(train_texts))) :
       \E rev \in BOOLEAN :
          LET va == DOMAIN train_texts \ tr
              n == Len(train_texts)
              tri == IF rev THEN Reverse(SortedSeq(tr, n)) ELSE SortedSeq(tr, n)
              vai == IF rev THEN Reverse(SortedSeq(va, n)) ELSE SortedSeq(va, n)
          IN  /\ train_texts' = [k \in 1..Len(tri) |-> train_texts[tri[k]]]
              /\ train_labels' = [k \in 1..Len(tri) |-> train_labels[tri[k]]]
              /\ val_texts' = [k \in 1..Len(vai) |-> train_texts[vai[k]]]
              /\ val_labels' = [k \in 1..Len(vai) |-> train_labels[vai[k]]]
    /\ sp_pc' = "split"
    /\ UNCHANGED <<runVars, ldVars, tokVars, reproVars>>

\* lines 95-97: the sizes are printed
SplitPrint ==
    /\ sp_pc = "split"
    /\ sp_pc' = "printed"
    /\ UNCHANGED <<train_texts, train_labels, val_texts, val_labels>>
    /\ UNCHANGED <<runVars, ldVars, tokVars, reproVars>>

(***************************************************************************)
(* The tokenizer                                                           *)
(***************************************************************************)
\* longest text tokenized, in word pieces
MaxTokens == 260

MAX_LENGTH == 256

\* the max_length of the tokenizer call on example_texts
ExampleMaxLength == 256

\* ids of [CLS], [SEP] and [PAD] in the bert-base-uncased vocabulary
CLS == 101
SEP == 102
PAD == 0

\* a text of n word pieces
Text(n) == [i \in 1..n |-> 1000 + i]

\* BertTokenizer.__call__ on one text: the word pieces between [CLS] and [SEP],
\* cut to max_length when truncation is on, filled with [PAD] to max_length
\* when padding is "max_length"
tokenizer(text, max_length, padding, truncation) ==
    LET room == max_length - 2
        kept == IF truncation /\ Len(text) > room
                THEN SubSeq(text, 1, Max(room, 0)) ELSE text
        ids == <<CLS>> \o kept \o <<SEP>>
        fill == IF padding = "max_length" /\ Len(ids) < max_length
                THEN max_length - Len(ids) ELSE 0
    IN  [input_ids |-> ids \o [k \in 1..fill |-> PAD],
         attention_mask |-> [k \in 1..Len(ids) |-> 1] \o [k \in 1..fill |-> 0]]

\* tokenize_function had truncation been left off
tokenize_function_untruncated(texts) ==
    tokenizer(texts, MAX_LENGTH, "max_length", FALSE)

\* lines 113-119
tokenize_function(texts) == tokenizer(texts, MAX_LENGTH, "max_length", TRUE)

\* lines 498-504: the tokenizer call on example_texts
tokenize_examples(texts) == tokenizer(texts, ExampleMaxLength, "max_length", TRUE)

NoEncoding == [input_ids |-> <<>>, attention_mask |-> <<>>]

TokInit ==
    /\ tok_site = "none" /\ tok_text = <<>> /\ tok_out = NoEncoding

TokParked ==
    /\ tok_site = "idle" /\ tok_text = <<>> /\ tok_out = NoEncoding

\* lines 122-124: a text of a split is tokenized
TokenizeSplit ==
    /\ tok_site \in {"none", "splits"}
    /\ \E n \in 0..MaxTokens :
          /\ tok_text' = Text(n)
          /\ tok_out' = tokenize_function(Text(n))
    /\ tok_site' = "splits"
    /\ UNCHANGED <<runVars, ldVars, splitVars, reproVars>>

\* lines 498-504: an example text is tokenized
TokenizeExample ==
    /\ tok_site \in {"splits", "adhoc"}
    /\ \E n \in 0..MaxTokens :
          /\ tok_text' = Text(n)
          /\ tok_out' = tokenize_examples(Text(n))
    /\ tok_site' = "adhoc"
    /\ UNCHANGED <<runVars, ldVars, splitVars, reproVars>>

(***************************************************************************)
(* Two executions of the notebook                                          *)
(***************************************************************************)
\* number of states of the random generator
RngStates == 8

SEED == 42

Runs == {1, 2}

\* the value a draw returns and the state it leaves the generator in
RngValue(g) == g
RngNext(g) == (g + 1) % RngStates

\* torch.manual_seed(SEED)
manual_seed(seed) == seed % RngStates

\* one draw by every execution, recorded with what it was for
Draw(what) ==
    /\ draws' = [r \in Runs |->
                    Append(draws[r], [what |-> what, seeded |-> seeded[r],
                                      value |-> RngValue(rng[r])])]
    /\ rng' = [r \in Runs |-> RngNext(rng[r])]

\* a fresh kernel: torch seeds its default generator from the system's entropy
ReproInit ==
    /\ rp_pc = "model"
    /\ rp_epoch = 0
    /\ rng \in [Runs -> 0..(RngStates - 1)]
    /\ seeded = [r \in Runs |-> FALSE]
    /\ draws = [r \in Runs |-> <<>>]

ReproParked ==
    /\ rp_pc = "idle"
    /\ rp_epoch = 0
    /\ rng = [r \in Runs |-> 0]
    /\ seeded = [r \in Runs |-> FALSE]
    /\ draws = [r \in Runs |-> <<>>]

\* line 268: CustomBERTModel(...) initialises the classifier's nn.Linear layers
RpModelInit ==
    /\ rp_pc = "model"
    /\ Draw("init")
    /\ rp_pc' = "seed"
    /\ UNCHANGED <<rp_epoch, seeded>>
    /\ UNCHANGED <<runVars, ldVars, splitVars, tokVars>>

\* lines 335-340: the seeds are set
RpSeed ==
    /\ rp_pc = "seed"
    /\ rng' = [r \in Runs |-> manual_seed(SEED)]
    /\ seeded' = [r \in Runs |-> TRUE]
    /\ rp_pc' = "shuffle"
    /\ UNCHANGED <<rp_epoch, draws>>
    /\ UNCHANGED <<runVars, ldVars, splitVars, tokVars>>

\* line 374: iterating train_loader draws the epoch's shuffle
RpShuffle ==
    /\ rp_pc = "shuffle" /\ rp_epoch < EPOCHS
    /\ Draw("shuffle")
    /\ rp_epoch' = rp_epoch + 1
    /\ rp_pc' = "dropout"
    /\ UNCHANGED seeded
    /\ UNCHANGED <<runVars, ldVars, splitVars, tokVars>>

\* line 382: the forward passes in training mode draw BERT's dropout masks
RpDropout ==
    /\ rp_pc = "dropout"
    /\ Draw("dropout")
    /\ rp_pc' = IF rp_epoch < EPOCHS THEN "shuffle" ELSE "done"
    /\ UNCHANGED <<rp_epoch, seeded>>
    /\ UNCHANGED <<runVars, ldVars, splitVars, tokVars>>

(***************************************************************************)
(* The specifications                                                      *)
(***************************************************************************)
Init == RunInit /\ LdParked /\ SplitParked /\ TokParked /\ ReproParked

\* the notebook's cells from the training loop on, on scaled-down splits
Spec == Init /\ [][Next]_vars

LoadersInit == RunInit /\ LdInit /\ SplitParked /\ TokParked /\ ReproParked

LoadersNext == LdYield \/ LdNextPass

\* the passes over the three loaders, at their real sizes
LoadersSpec == LoadersInit /\ [][LoadersNext]_vars

SplitSpecInit == RunInit /\ LdParked /\ SplitInit /\ TokParked /\ ReproParked

SplitNext == TrainTestSplit \/ SplitPrint

\* the split of the labelled set
SplitSpec == SplitSpecInit /\ [][SplitNext]_vars

TokSpecInit == RunInit /\ LdParked /\ SplitParked /\ TokInit /\ ReproParked

TokNext == TokenizeSplit \/ TokenizeExample

\* the tokenizer calls
TokSpec == TokSpecInit /\ [][TokNext]_vars

ReproSpecInit == RunInit /\ LdParked /\ SplitParked /\ TokParked /\ ReproInit

ReproNext == RpModelInit \/ RpSeed \/ RpShuffle \/ RpDropout

\* two executions of the notebook in a fresh kernel each
ReproSpec == ReproSpecInit /\ [][ReproNext]_vars

(***************************************************************************)
(* The claims                                                              *)
(***************************************************************************)
TrainPcs == {"train_fetch", "zero_grad", "forward", "loss", "backward", "step",
             "train_metrics"}
ValPcs == {"val_fetch", "val_forward", "val_metrics"}
TestPcs == {"test_fetch", "test_forward", "test_metrics"}
AfterLoopPcs == TestPcs \cup {"infer_start", "infer", "done"}
EvalPcs == ValPcs \cup TestPcs \cup {"infer"}

\* C1: the optimizer is given exactly the classifier's parameters; every encoder
\* parameter keeps requires_grad = False and its pretrained value in every state
\* of the run, and a parameter value changes only in optimizer.step() and only
\* if it is a classifier parameter.
C1_EncoderFrozen ==
    /\ [](/\ opt_params = ClassifierParams
          /\ \A p \in BertParams : ~requires_grad[p] /\ params[p] = Pretrained[p])
    /\ [][\A p \in ParamNames :
             params'[p] # params[p] => (p \in ClassifierParams /\ pc = "step")]_vars

\* C1 witness: the run has ended, the optimizer has stepped and moved the
\* classifier, and the encoder is as it was loaded
C1_Witness ==
    /\ pc = "done" /\ steps > 0
    /\ params["classifier.weight"] # Pretrained["classifier.weight"]
    /\ \A p \in BertParams : params[p] = Pretrained[p]

\* C2: while a validation pass, a test pass or the inference on the examples is
\* under way the model is in eval mode and gradient recording is off; the forward
\* pass each of them made ran in eval mode, without gradient recording and without
\* dropout; and none of their steps changes a parameter, a gradient or the number
\* of optimizer steps.
C2_EvalMode ==
    /\ [](/\ pc \in EvalPcs => ~training /\ ~grad_enabled
          /\ pc \in {"val_metrics", "test_metrics", "done"} =>
                ~fwd.training /\ ~fwd.grad_enabled /\ ~fwd.drop)
    /\ [][(pc \in EvalPcs) =>
             (params' = params /\ steps' = steps /\ grads' = grads)]_vars

\* C2 witness: the second epoch's validation pass has made a forward pass, after
\* the train mode set at the start of that epoch
C2_Witness ==
    /\ pc = "val_metrics" /\ epoch = 2
    /\ ~fwd.training /\ ~fwd.grad_enabled /\ fwd.steps = steps /\ steps > 0

\* how far the run has come: the epochs reported, then the pass, the examples it
\* has delivered and the statement of the loop body
Progress ==
    LET stmt == CASE pc \in {"zero_grad", "val_forward", "test_forward"} -> 1
                  [] pc \in {"forward", "val_metrics", "test_metrics"} -> 2
                  [] pc = "loss" -> 3
                  [] pc = "backward" -> 4
                  [] pc = "step" -> 5
                  [] pc = "train_metrics" -> 6
                  [] OTHER -> 7
        pass == CASE pc \in TrainPcs -> 1
                  [] pc \in ValPcs -> 2
                  [] pc \in TestPcs -> 3
                  [] pc = "infer_start" -> 4
                  [] pc = "infer" -> 5
                  [] pc = "done" -> 6
                  [] OTHER -> 0
        in_pass == IF pc \in TrainPcs \cup ValPcs \cup TestPcs THEN 8 * pos + stmt ELSE 0
        width == 8 * (NumTrain + NumVal + NumTest) + 8
    IN  (Len(output) * 7 + pass) * width + in_pass

\* C3: the epoch loop runs twice and the run then ends: the k-th report is epoch
\* k's, made after one pass over every training batch and then one pass over every
\* validation batch of that epoch; the validation pass starts when the training
\* pass is complete; the test cell starts after the second report; every step
\* takes the run further, and until the last cell is done a step can be taken.
C3_TwoEpochs ==
    /\ [](/\ epoch \in 0..2
          /\ Len(output) = (IF pc \in TrainPcs \cup ValPcs THEN epoch - 1 ELSE epoch)
          /\ \A k \in 1..Len(output) :
                /\ output[k].epoch = k
                /\ output[k].train_acc[2] = NumTrain
                /\ output[k].train_loss[2] * batch_size >= NumTrain
                /\ output[k].val_acc[2] = NumVal
                /\ output[k].val_loss[2] * batch_size >= NumVal
          /\ pc \in ValPcs => total_examples = NumTrain
          /\ pc \in AfterLoopPcs => Len(output) = 2 /\ epoch = 2
          /\ pc = "done" \/ ENABLED Next)
    /\ [][/\ Len(output') # Len(output) =>
                (/\ Len(output') = Len(output) + 1
                 /\ total_examples = NumTrain
                 /\ total_val_examples = NumVal)
          /\ Progress' > Progress]_vars

\* C3 witness: the run has ended with the two reports printed
C3_Witness ==
    /\ pc = "done" /\ Len(output) = 2
    /\ output[1].epoch = 1 /\ output[2].epoch = 2

\* C4 (as stated): every batch a loader yields has exactly batch_size = 8 examples
C4_FixedSizeBatches == ld_len # 0 => ld_len = 8

\* C4 (amended): the train, validation and test loaders hold 22500, 2500 and 25000
\* examples; every batch they yield, in every epoch, has exactly 8 examples except
\* the last batch of a pass, which has the examples that are left: 4 for the train
\* loader, 4 for the validation loader and 8 for the test loader.
C4_BatchSizes ==
    /\ LoaderRows("train") = 22500
    /\ LoaderRows("val") = 2500
    /\ LoaderRows("test") = 25000
    /\ ld_pos <= LoaderRows(ld_loader)
    /\ ld_len # 0 =>
          /\ ld_len \in 1..8
          /\ ld_pos < LoaderRows(ld_loader) => ld_len = 8
          /\ ld_pos = LoaderRows(ld_loader) =>
                ld_len = (CASE ld_loader = "train" -> 4
                            [] ld_loader = "val" -> 4
                            [] OTHER -> 8)

\* C4 witness: the second epoch's training pass has yielded its last batch, of 4
C4_Witness ==
    /\ ld_loader = "train" /\ ld_epoch = 2 /\ ld_pos = 22500 /\ ld_len = 4

\* the dataset whose loader the run is iterating
PassDataset ==
    CASE pc \in TrainPcs -> train_dataset
      [] pc \in ValPcs -> val_dataset
      [] OTHER -> test_dataset

\* C5: in every pass the sampler's order holds each index of the split once; the
\* reviews delivered so far are those at the first pos indices of that order, no
\* review twice; the validation and test loaders deliver in index order; each item
\* of a batch holds the encoding and the label of one and the same index; a pass
\* ends only when every review of the split was delivered; and whatever was drawn
\* before, every shuffle can be drawn at the start of an epoch.
C5_EveryExampleOnce ==
    /\ [](pc \in TrainPcs \cup ValPcs \cup TestPcs =>
            LET ds == PassDataset
                n == Len(ds.labels)
                len == IF pc \in {"train_fetch", "val_fetch", "test_fetch"}
                       THEN 0 ELSE Len(batch)
            IN  /\ Len(order) = n
                /\ {order[k] : k \in 1..n} = 1..n
                /\ Len(delivered) = pos /\ pos <= n
                /\ \A k \in 1..pos : delivered[k] = ds.encodings[order[k]].input_ids
                /\ \A j, k \in 1..pos : j # k => delivered[j] # delivered[k]
                /\ pc \notin TrainPcs => \A k \in 1..pos : order[k] = k
                /\ \A k \in 1..len :
                      LET idx == order[pos - len + k]
                      IN  /\ batch[k].input_ids = ds.encodings[idx].input_ids
                          /\ batch[k].attention_mask = ds.encodings[idx].attention_mask
                          /\ batch[k].labels = ds.labels[idx])
    /\ [][(<<pc, pc'>> \in {<<"train_fetch", "val_fetch">>, <<"val_fetch", "epoch_loop">>,
                             <<"test_fetch", "infer_start">>}) =>
             {delivered[k] : k \in 1..Len(delivered)} =
                {PassDataset.encodings[i].input_ids : i \in 1..Len(PassDataset.labels)}]_vars
    /\ []((pc = "epoch_loop" /\ epoch < 2) =>
             \A o \in ShuffleOrders(NumTrain) : ENABLED (EpochStart /\ order' = o))

\* C5 witness: the second epoch's training pass has delivered every review, in an
\* order that is not the dataset's
C5_Witness ==
    /\ pc = "train_fetch" /\ epoch = 2 /\ pos = NumTrain
    /\ Len(delivered) = NumTrain
    /\ \E k \in 1..NumTrain : delivered[k] # k

\* the examples of the current batch whose label holds the largest logit, the
\* first of the largest when several are equal
Hits ==
    {k \in 1..Len(batch) :
        /\ \A c \in 0..1 : logits[k][c] <= logits[k][batch[k].labels]
        /\ \A c \in 0..1 : c < batch[k].labels => logits[k][c] < logits[k][batch[k].labels]}

\* C8: in each pass the example counter is the number of examples of the batches
\* counted so far (zero when the pass starts, the size of the split when it ends,
\* a smaller last batch counted with its size) and 0 <= correct <= examples; a
\* batch adds to correct the number of its examples whose label is the index of
\* the largest logit; the accuracy of a pass is its correct counter over the
\* size of the split.
C8_Accuracy ==
    /\ [](/\ 0 <= total_train_correct /\ total_train_correct <= total_examples
          /\ 0 <= total_val_correct /\ total_val_correct <= total_val_examples
          /\ 0 <= total_test_correct /\ total_test_correct <= total_test_examples
          /\ pc = "train_fetch" => total_examples = pos
          /\ pc \in TrainPcs \ {"train_fetch"} => total_examples = pos - Len(batch)
          /\ pc = "val_fetch" => total_val_examples = pos
          /\ pc \in ValPcs \ {"val_fetch"} => total_val_examples = pos - Len(batch)
          /\ pc = "test_fetch" => total_test_examples = pos
          /\ pc \in TestPcs \ {"test_fetch"} => total_test_examples = pos - Len(batch)
          /\ pc \in ValPcs =>
                total_examples = NumTrain /\ train_acc = <<total_train_correct, NumTrain>>
          /\ \A k \in 1..Len(output) :
                /\ output[k].train_acc[2] = NumTrain
                /\ output[k].val_acc[2] = NumVal
                /\ output[k].train_acc[1] \in 0..NumTrain
                /\ output[k].val_acc[1] \in 0..NumVal
          /\ pc = "epoch_loop" /\ epoch > 0 =>
                val_acc = <<total_val_correct, NumVal>> /\ total_val_examples = NumVal
          /\ pc \in {"infer_start", "infer", "done"} =>
                test_acc = <<total_test_correct, NumTest>> /\ total_test_examples = NumTest)
    /\ [][/\ pc = "train_metrics" =>
                /\ total_train_correct' = total_train_correct + Cardinality(Hits)
                /\ total_examples' = total_examples + Len(batch)
          /\ pc = "val_metrics" =>
                /\ total_val_correct' = total_val_correct + Cardinality(Hits)
                /\ total_val_examples' = total_val_examples + Len(batch)
          /\ pc = "test_metrics" =>
                /\ total_test_correct' = total_test_correct + Cardinality(Hits)
                /\ total_test_examples' = total_test_examples + Len(batch)]_vars

\* C8 witness: the second epoch's training pass has counted every example, the
\* two of its last batch included, some of them correct and some not
C8_Witness ==
    /\ pc = "train_fetch" /\ epoch = 2 /\ pos = NumTrain
    /\ total_examples = NumTrain /\ Len(batch) < 8
    /\ 0 < total_train_correct /\ total_train_correct < total_examples

\* the statement that follows each statement of the training loop's body
AfterPc ==
    [s \in TrainPcs \ {"train_fetch"} |->
        CASE s = "zero_grad" -> "forward"
          [] s = "forward" -> "loss"
          [] s = "loss" -> "backward"
          [] s = "backward" -> "step"
          [] s = "step" -> "train_metrics"
          [] OTHER -> "train_fetch"]

\* C9: a training batch goes through zero_grad, forward, loss, backward, step and
\* the metrics in this order; the optimizer steps once per batch and nowhere
\* else; the gradients are clear when the forward pass runs and at the step hold
\* the contribution of the current batch alone; the loss and the logits the
\* metrics use are those of the forward pass made before the step, from the
\* parameters the step then changed.
C9_TrainStepOrder ==
    /\ [](/\ pc \in {"forward", "loss", "backward"} =>
                \A p \in opt_params : grads[p] = [is_none |-> TRUE, from |-> {}]
          /\ pc = "step" =>
                /\ \A p \in opt_params :
                      grads[p] = [is_none |-> FALSE,
                                  from |-> {<<epoch, (pos + 7) \div 8>>}]
                /\ fwd.params = params /\ fwd.steps = steps
          /\ pc = "train_metrics" =>
                /\ fwd.steps + 1 = steps
                /\ fwd.training /\ fwd.grad_enabled
                /\ logits = forward(fwd.params, batch, fwd.drop)
                /\ loss = criterion(logits, batch)
          /\ pc \in TrainPcs =>
                steps = (epoch - 1) * ((NumTrain + 7) \div 8) + ((pos + 7) \div 8)
                        - (IF pc \in {"zero_grad", "forward", "loss", "backward", "step"}
                           THEN 1 ELSE 0))
    /\ [][/\ (pc \in TrainPcs \ {"train_fetch"}) => pc' = AfterPc[pc]
          /\ pc = "train_fetch" => pc' \in {"zero_grad", "val_fetch"}
          /\ steps' # steps => (steps' = steps + 1 /\ pc = "step")]_vars

\* C9 witness: the metrics of the second batch of the second epoch are being
\* taken, after a step that changed the parameters the logits were computed from
C9_Witness ==
    /\ pc = "train_metrics" /\ epoch = 2 /\ pos = NumTrain
    /\ fwd.params # params /\ fwd.steps + 1 = steps

\* number of labels c in a sequence of labels
CountOf(labels, c) == Cardinality({k \in 1..Len(labels) : labels[k] = c})

\* the elements of a sequence
Elems(seq) == {seq[k] : k \in 1..Len(seq)}

\* C6: once the split is made, the train part and the validation part are
\* disjoint, hold no example twice and together hold every example of the labelled
\* set, each with its own label; the validation part is a tenth of the set (2500
\* of 25000, leaving 22500); each class has in both parts the proportion it has in
\* the set; and no test example is in either part.
C6_StratifiedPartition ==
    sp_pc # "loaded" =>
        /\ Len(train_texts) = Len(train_labels)
        /\ Len(val_texts) = Len(val_labels)
        /\ Len(val_texts) * 10 = SplitRows
        /\ Len(train_texts) + Len(val_texts) = SplitRows
        /\ ValRows(25000) = 2500 /\ TrainRows(25000) = 22500
        /\ Elems(train_texts) \cap Elems(val_texts) = {}
        /\ Elems(train_texts) \cup Elems(val_texts) = Elems(imdb_train.text)
        /\ Cardinality(Elems(train_texts)) = Len(train_texts)
        /\ Cardinality(Elems(val_texts)) = Len(val_texts)
        /\ \A k \in 1..Len(train_texts) :
              train_labels[k] = imdb_train.label[train_texts[k][2]]
        /\ \A k \in 1..Len(val_texts) :
              val_labels[k] = imdb_train.label[val_texts[k][2]]
        /\ \A c \in 0..1 :
              /\ CountOf(train_labels, c) * SplitRows
                    = CountOf(imdb_train.label, c) * Len(train_labels)
              /\ CountOf(val_labels, c) * SplitRows
                    = CountOf(imdb_train.label, c) * Len(val_labels)
        /\ Elems(imdb_test.text) \cap (Elems(train_texts) \cup Elems(val_texts)) = {}

\* C6 witness: the split is made, and the validation part holds both classes
C6_Witness ==
    /\ sp_pc = "split"
    /\ Len(val_texts) > 0 /\ Len(train_texts) > Len(val_texts)
    /\ CountOf(val_labels, 0) > 0 /\ CountOf(val_labels, 1) > 0

\* C7: the encoding of a text of n word pieces has 256 token ids and 256 mask
\* entries: [CLS], the first min(n, 254) word pieces, [SEP], then [PAD] up to 256,
\* the mask 1 on the former and 0 on the padding; and the call on the example
\* texts returns what tokenize_function returns for the same text.
C7_FixedLength ==
    tok_site # "none" =>
        LET n == Len(tok_text)
            real == IF n + 2 < 256 THEN n + 2 ELSE 256
        IN  /\ Len(tok_out.input_ids) = 256
            /\ Len(tok_out.attention_mask) = 256
            /\ \A k \in 1..256 : tok_out.attention_mask[k] = (IF k <= real THEN 1 ELSE 0)
            /\ tok_out.input_ids[1] = CLS
            /\ tok_out.input_ids[real] = SEP
            /\ \A k \in 2..(real - 1) : tok_out.input_ids[k] = tok_text[k - 1]
            /\ \A k \in (real + 1)..256 : tok_out.input_ids[k] = PAD
            /\ tok_site = "adhoc" => tok_out = tokenize_function(tok_text)

\* C7 witness: a text of a split longer than 256 word pieces was tokenized
C7_Witness ==
    /\ tok_site = "splits" /\ Len(tok_text) > 256
    /\ Len(tok_out.input_ids) = 256

\* C10: two executions make the same random draws, each of them after the
\* execution has set its seeds
C10_Reproducible ==
    /\ draws[1] = draws[2]
    /\ \A r \in Runs : \A k \in 1..Len(draws[r]) : draws[r][k].seeded

====
